---------------------------- MODULE Spec2Model ----------------------------
(***************************************************************************)
(* autotiling-rs: the event loop of main() and the decision made by        *)
(* switch_splitting() on a snapshot of the compositor's window tree.       *)
(*                                                                         *)
(* A tree snapshot is an arena: a function from node ids 1..n to node      *)
(* records whose nodes / floating_nodes / focus fields are sequences of    *)
(* ids. Node 1 is the root. Option<&Node> is an id, with NoNode for None.  *)
(***************************************************************************)
EXTENDS Integers, Sequences, FiniteSets, TLC

VARIABLES
    tree,       \* the compositor's window tree (what get_tree() would return)
    ratio,      \* args.ratio, an f32
    status,     \* the process: "running" or "panicked"
    last,       \* what the most recent iteration of the loop in main() did
    prior       \* history: when this iteration is a decision cycle that directly
                \* follows a completed one whose command (if any) the compositor
                \* applied, <<the number of commands of that earlier cycle>>;
                \* else <<>>

vars == <<tree, ratio, status, last, prior>>

----------------------------------------------------------------------------
(* Bounds of the model *)

\* the largest number of nodes of a tree snapshot
MaxNodes == 5

\* the largest number of windows of a workspace in the geometry specification
MaxWindows == 2

----------------------------------------------------------------------------
(* f32 arithmetic: a value is a record [cls, e, m]; a finite positive value *)
(* is m * 2^(e-23) with 2^23 <= m < 2^24 (24 significant bits).            *)

MantissaBits == 24

TwoPow23 == 8388608

F32Nan == [cls |-> "nan", e |-> 0, m |-> 0]

F32Inf == [cls |-> "inf", e |-> 0, m |-> 0]

F32Zero == [cls |-> "zero", e |-> 0, m |-> 0]

\* the number of doublings of b needed to reach a: the k with b*2^k <= a < b*2^(k+1)
RECURSIVE ScaleUp(_, _)
ScaleUp(a, b) == IF a >= 2 * b THEN 1 + ScaleUp(a, 2 * b) ELSE 0

\* the number of doublings of a needed to reach b
RECURSIVE ScaleDown(_, _)
ScaleDown(a, b) == IF a < b THEN 1 + ScaleDown(2 * a, b) ELSE 0

RECURSIVE Pow2(_)
Pow2(k) == IF k = 0 THEN 1 ELSE 2 * Pow2(k - 1)

\* long division of r by b, one quotient bit a step: <<quotient, remainder>>
\* after `bits` more bits, starting from quotient q and partial remainder r < 2b
RECURSIVE LongDiv(_, _, _, _)
LongDiv(q, r, b, bits) ==
    IF bits = 0 THEN <<q, r>>
    ELSE IF r >= b THEN LongDiv(2 * q + 1, 2 * (r - b), b, bits - 1)
         ELSE LongDiv(2 * q, 2 * r, b, bits - 1)

\* the f32 nearest to a / b (round to nearest, ties to even), for naturals a, b:
\* what `(a as f32) / (b as f32)` evaluates to when a and b are exactly
\* representable, and what parsing the decimal a/b as an f32 gives
F32Div(a, b) ==
    IF b = 0 THEN (IF a = 0 THEN F32Nan ELSE F32Inf)
    ELSE IF a = 0 THEN F32Zero
    ELSE LET up == ScaleUp(a, b)
             down == ScaleDown(a, b)
             e == up - down
             num == a * Pow2(down)
             den == b * Pow2(up)
             qr == LongDiv(0, num, den, MantissaBits)
             guard == qr[2] >= den
             rest == IF guard THEN qr[2] - den ELSE qr[2]
             roundUp == guard /\ (rest # 0 \/ qr[1] % 2 = 1)
             m == IF roundUp THEN qr[1] + 1 ELSE qr[1]
         IN IF m = 2 * TwoPow23
            THEN [cls |-> "fin", e |-> e + 1, m |-> TwoPow23]
            ELSE [cls |-> "fin", e |-> e, m |-> m]

\* a comparison that lets equality through
F32Ge(x, y) ==
    CASE x.cls = "nan" \/ y.cls = "nan" -> FALSE
      [] x.cls = "inf" -> TRUE
      [] y.cls = "inf" -> FALSE
      [] y.cls = "zero" -> TRUE
      [] x.cls = "zero" -> FALSE
      [] OTHER -> x.e > y.e \/ (x.e = y.e /\ x.m >= y.m)

\* x > y on non-negative f32 values; any comparison with NaN is false
F32Gt(x, y) ==
    CASE x.cls = "nan" \/ y.cls = "nan" -> FALSE
      [] x.cls = "inf" -> y.cls # "inf"
      [] y.cls = "inf" -> FALSE
      [] x.cls = "zero" -> FALSE
      [] y.cls = "zero" -> TRUE
      [] OTHER -> x.e > y.e \/ (x.e = y.e /\ x.m > y.m)

----------------------------------------------------------------------------
(* The tree snapshots the compositor may hand out *)

NoNode == 0

RootId == 1

NoPercent == -1

NodeLayouts == {"SplitH", "SplitV", "Stacked", "Tabbed", "None"}

RECURSIVE SortedSeq(_)
SortedSeq(S) ==
    IF S = {} THEN <<>>
    ELSE LET lo == CHOOSE x \in S : \A y \in S : x <= y
         IN <<lo>> \o SortedSeq(S \ {lo})

SeqRange(s) == {s[k] : k \in DOMAIN s}

\* parent vectors of the ordered trees on 1..n, numbered breadth first
ParentVectors(n) ==
    {p \in [2..n -> 1..(n - 1)] :
        /\ \A i \in 2..n : p[i] < i
        /\ \A i \in 2..(n - 1) : p[i] <= p[i + 1]}

RECURSIVE DepthOf(_, _)
DepthOf(p, i) == IF i = RootId THEN 0 ELSE 1 + DepthOf(p, p[i])

RECURSIVE AncestorsOf(_, _)
AncestorsOf(p, i) == IF i = RootId THEN {} ELSE {p[i]} \cup AncestorsOf(p, p[i])

\* sway's typing of the tree: root, outputs, workspaces, then containers;
\* only a workspace owns floating children
TypeAt(p, fl, i) ==
    CASE DepthOf(p, i) = 0 -> "Root"
      [] DepthOf(p, i) = 1 -> "Output"
      [] DepthOf(p, i) = 2 -> "Workspace"
      [] i \in fl -> "FloatingCon"
      [] OTHER -> "Con"

DefaultRect == [width |-> 1920, height |-> 1080]

\* The snapshot with shape p, floating children fl, focus path leading to fp;
\* fp carries layout lf, rect rc, percent pc and (when hasFocus) focused = true;
\* every other node has layout lo.
MkTree(n, p, fl, fp, hasFocus, lf, lo, rc, pc) ==
    [i \in 1..n |->
        LET tiling == SortedSeq({j \in 2..n : p[j] = i /\ j \notin fl})
            floating == SortedSeq({j \in 2..n : p[j] = i /\ j \in fl})
            all == tiling \o floating
            toward == {j \in SeqRange(all) : j = fp \/ j \in AncestorsOf(p, fp)}
        IN [id |-> i,
            node_type |-> TypeAt(p, fl, i),
            layout |-> IF i = fp THEN lf ELSE lo,
            rect |-> IF i = fp THEN rc ELSE DefaultRect,
            percent |-> IF i = fp THEN pc ELSE NoPercent,
            focused |-> (hasFocus /\ i = fp),
            focus |-> SortedSeq(toward) \o SelectSeq(all, LAMBDA j : j \notin toward),
            nodes |-> tiling,
            floating_nodes |-> floating]]

\* the floating children a tree of shape p may have
FloatingChoices(n, p) == SUBSET {j \in 2..n : DepthOf(p, j) = 3}

----------------------------------------------------------------------------
(* The resolver: lines 43-69 *)

\* the closure |n| n.focused of line 10, as a function of the node id
FocusedPredicate(t) == [i \in DOMAIN t |-> t[i].focused]

\* the closure |n| n.nodes.iter().any(|nn| nn.id == current.id) of line 68
ParentPredicate(t, current) ==
    [i \in DOMAIN t |-> \E k \in DOMAIN t[i].nodes : t[t[i].nodes[k]].id = t[current].id]

\* the first node of `list` whose id is `first`, or NoNode
ChildWithId(t, list, first) ==
    IF \E k \in DOMAIN list : t[list[k]].id = first
    THEN list[CHOOSE k \in DOMAIN list :
                /\ t[list[k]].id = first
                /\ \A j \in DOMAIN list : t[list[j]].id = first => k <= j]
    ELSE NoNode

RECURSIVE node_find_focused_as_ref(_, _, _)
node_find_focused_as_ref(t, slf, predicate) ==
    IF predicate[slf] THEN slf
    ELSE IF t[slf].focus = <<>> THEN NoNode
    ELSE LET first == t[slf].focus[1]
             inNodes == ChildWithId(t, t[slf].nodes, first)
             inFloating == ChildWithId(t, t[slf].floating_nodes, first)
         IN IF inNodes # NoNode THEN node_find_focused_as_ref(t, inNodes, predicate)
            ELSE IF inFloating # NoNode
                 THEN node_find_focused_as_ref(t, inFloating, predicate)
                 ELSE NoNode

get_parent(t, current) ==
    node_find_focused_as_ref(t, RootId, ParentPredicate(t, current))

----------------------------------------------------------------------------
(* The policy: lines 74-82 and 19-35 *)

\* percent is an Option<f64>, here in hundredths; NoPercent is None
PercentOrOne(percent) == IF percent = NoPercent THEN 100 ELSE percent

\* the policy without its full-screen test
should_we_ignore_no_full_screen(focused_node) ==
    \/ focused_node.node_type = "FloatingCon"
    \/ focused_node.layout = "Stacked"
    \/ focused_node.layout = "Tabbed"

should_we_ignore_this_window(focused_node) ==
    LET is_stacked == focused_node.layout = "Stacked"
        is_tabbed == focused_node.layout = "Tabbed"
        is_floating == focused_node.node_type = "FloatingCon"
        is_full_screen == PercentOrOne(focused_node.percent) > 100
    IN is_floating \/ is_full_screen \/ is_stacked \/ is_tabbed

\* a decision that never looks for a single-child workspace
SingleChildWalkSkipped(t, current) == "geometry"

\* a decision that looks at the structural parent alone
SingleChildWalkDirect(t, current) ==
    IF Len(t[current].nodes) = 1 /\ t[current].node_type = "Workspace"
    THEN "forced" ELSE "geometry"

\* the loop of lines 20-28, from `current`: "forced" when it returns through
\* configure_layout(SplitH), "geometry" when the loop ends, "panic" when the
\* unwrap() of line 26 meets None
RECURSIVE SingleChildWalk(_, _)
SingleChildWalk(t, current) ==
    IF Len(t[current].nodes) = 1
    THEN IF t[current].node_type = "Workspace" THEN "forced"
         ELSE LET up == get_parent(t, current)
              IN IF up = NoNode THEN "panic" ELSE SingleChildWalk(t, up)
    ELSE "geometry"

\* lines 30-35: the layout the geometry asks for
GeometryLayout(rect, r) ==
    LET real_ratio == F32Div(rect.height, rect.width)
    IN IF F32Gt(real_ratio, r) THEN "SplitV" ELSE "SplitH"

----------------------------------------------------------------------------
(* The dispatcher: lines 87-99 *)

\* the two split commands exchanged
LayoutCommandSwapped(new_layout) ==
    CASE new_layout = "SplitV" -> "splith"
      [] new_layout = "SplitH" -> "splitv"
      [] OTHER -> "nop"

LayoutCommand(new_layout) ==
    CASE new_layout = "SplitV" -> "splitv"
      [] new_layout = "SplitH" -> "splith"
      [] OTHER -> "nop"

\* a dispatcher without the check of line 89
configure_layout_unchecked(new_layout, parent) == <<LayoutCommand(new_layout)>>

\* the commands configure_layout hands to run_command
configure_layout(new_layout, parent) ==
    IF new_layout = parent.layout THEN <<>> ELSE <<LayoutCommand(new_layout)>>

----------------------------------------------------------------------------
(* One decision cycle: switch_splitting, lines 6-38 *)

\* fetched: whether get_tree() answered; outcome: what run_command() would
\* answer ("applied", "rejected": the compositor refuses the command,
\* "transport": the call itself fails and unwrap() panics)
Cycle(result, err, focused, parent, ignored, walk, chosen, cmds) ==
    [result |-> result, err |-> err, focused |-> focused, parent |-> parent,
     ignored |-> ignored, walk |-> walk, chosen |-> chosen, cmds |-> cmds]

\* configure_layout's call, with the unwrap() of line 98
Dispatch(t, focused_node, parent, walk, new_layout, outcome) ==
    LET cmds == configure_layout(new_layout, t[parent])
    IN Cycle(IF cmds # <<>> /\ outcome = "transport" THEN "panic" ELSE "Ok",
             "", focused_node, parent, FALSE, walk, new_layout, cmds)

switch_splitting(t, r, fetched, outcome) ==
    IF ~fetched
    THEN Cycle("Err", "get_tree() failed", NoNode, NoNode, FALSE, "none", "none", <<>>)
    ELSE LET focused_node == node_find_focused_as_ref(t, RootId, FocusedPredicate(t))
         IN IF focused_node = NoNode
            THEN Cycle("Err", "Could not find the focused node",
                       NoNode, NoNode, FALSE, "none", "none", <<>>)
            ELSE LET parent == get_parent(t, focused_node)
                 IN IF parent = NoNode
                    THEN Cycle("Err", "No parent",
                               focused_node, NoNode, FALSE, "none", "none", <<>>)
                    ELSE IF should_we_ignore_this_window(t[focused_node])
                    THEN Cycle("Ok", "", focused_node, parent, TRUE, "none", "none", <<>>)
                    ELSE LET walk == SingleChildWalk(t, parent)
                         IN CASE walk = "panic" ->
                                    Cycle("panic", "", focused_node, parent, FALSE,
                                          walk, "none", <<>>)
                              [] walk = "forced" ->
                                    Dispatch(t, focused_node, parent, walk, "SplitH", outcome)
                              [] OTHER ->
                                    Dispatch(t, focused_node, parent, walk,
                                             GeometryLayout(t[focused_node].rect, r), outcome)

----------------------------------------------------------------------------
(* The compositor *)

\* the node that owns `child`, as a tiling or as a floating child
StructuralParent(t, child) ==
    IF \E i \in DOMAIN t : child \in SeqRange(t[i].nodes) \cup SeqRange(t[i].floating_nodes)
    THEN CHOOSE i \in DOMAIN t :
            child \in SeqRange(t[i].nodes) \cup SeqRange(t[i].floating_nodes)
    ELSE NoNode

CommandLayout(cmd) == IF cmd = "splitv" THEN "SplitV" ELSE "SplitH"

\* the compositor runs `cmd` on the focused container: the container that
\* holds it takes the layout the command names
ApplyCommand(t, cmd) ==
    LET foc == {i \in DOMAIN t : t[i].focused}
        owner == IF foc = {} THEN NoNode ELSE StructuralParent(t, CHOOSE i \in foc : TRUE)
    IN IF owner = NoNode \/ cmd = "nop" THEN t
       ELSE [t EXCEPT ![owner].layout = CommandLayout(cmd)]

RunCommands(t, cmds, outcome) ==
    IF cmds # <<>> /\ outcome = "applied" THEN ApplyCommand(t, cmds[1]) ELSE t

----------------------------------------------------------------------------
(* The event loop: main, lines 112-139 *)

CommandOutcomes == {"applied", "rejected", "transport"}

WindowChanges ==
    {"New", "Close", "Focus", "Title", "FullscreenMode", "Move", "Floating",
     "Urgent", "Mark"}

EventTypes == {"Window", "Workspace", "Output", "Shutdown"}

\* line 118: subscribe(&[EventType::Window])
Subscribed == {"Window"}

\* the session delivers the events of the subscribed categories
DeliveredEvents ==
    {e \in [category : EventTypes, change : WindowChanges] :
        /\ e.category \in Subscribed
        /\ e.category # "Window" => e.change = "Focus"}

\* a loop that acts on every window change
IsAnyChange(change) == change \in WindowChanges

\* line 123: if let WindowChange::Focus = e.change
IsFocusChange(change) == change = "Focus"

NoPrior == <<>>

NoCycle == Cycle("none", "", NoNode, NoNode, FALSE, "none", "none", <<>>)

Iteration(event, fetch, outcome, cycle, snapshot) ==
    [event |-> event, fetch |-> fetch, outcome |-> outcome, cycle |-> cycle,
     printed |-> IF cycle.result = "Err" THEN "err: " \o cycle.err ELSE "",
     snapshot |-> snapshot]

\* lines 129-131: one decision cycle, its error printed, its command run
FocusCycle(e, fetched, outcome) ==
    LET cycle == switch_splitting(tree, ratio, fetched, outcome)
        sent == cycle.cmds # <<>>
    IN /\ last' = Iteration(e, IF fetched THEN "ok" ELSE "failed",
                            IF sent THEN outcome ELSE "none", cycle,
                            IF fetched THEN tree ELSE <<>>)
       /\ status' = IF cycle.result = "panic" THEN "panicked" ELSE "running"
       /\ tree' = RunCommands(tree, cycle.cmds, outcome)
       /\ prior' = IF fetched /\ last.fetch = "ok" /\ last.cycle.result = "Ok"
                       /\ last.outcome \in {"none", "applied"}
                    THEN <<Len(last.cycle.cmds)>> ELSE NoPrior

\* one iteration of the for loop of line 116 on a delivered event
HandleEvent(e) ==
    /\ status = "running"
    /\ IF e.category # "Window"
       THEN \* line 134: unreachable!()
            /\ status' = "panicked"
            /\ last' = Iteration(e, "none", "none", NoCycle, <<>>)
            /\ prior' = NoPrior
            /\ UNCHANGED tree
       ELSE IF ~IsFocusChange(e.change)
       THEN /\ last' = Iteration(e, "none", "none", NoCycle, <<>>)
            /\ prior' = NoPrior
            /\ UNCHANGED <<tree, status>>
       ELSE \/ FocusCycle(e, FALSE, "none")
            \/ \E outcome \in CommandOutcomes : FocusCycle(e, TRUE, outcome)
    /\ UNCHANGED ratio

\* line 121: event.unwrap() on a session error
SessionError ==
    /\ status = "running"
    /\ status' = "panicked"
    /\ last' = Iteration([category |-> "none", change |-> "none"], "none", "none",
                         NoCycle, <<>>)
    /\ prior' = NoPrior
    /\ UNCHANGED <<tree, ratio>>

Next ==
    \/ \E e \in DeliveredEvents : HandleEvent(e)
    \/ SessionError

----------------------------------------------------------------------------
(* Specifications *)

\* --ratio as the decimal num/den, parsed to the nearest f32
ParseRatio(rq) == F32Div(rq[1], rq[2])

\* 0.4 is the default of line 108
DefaultRatio == ParseRatio(<<4, 10>>)

Rect(w, h) == [width |-> w, height |-> h]

Idle ==
    Iteration([category |-> "none", change |-> "none"], "none", "none", NoCycle, <<>>)

\* tree is a snapshot of shape p: one focused node with its attributes
\* drawn from the given sets, or no focused node at all
TreeOfShape(n, p, layoutsF, layoutsO, rects, percents) ==
    \E fl \in FloatingChoices(n, p), fp \in 1..n, hf \in BOOLEAN, lo \in layoutsO :
        \E lf \in (IF hf THEN layoutsF ELSE {lo}),
           rc \in (IF hf THEN rects ELSE {DefaultRect}),
           pc \in (IF hf THEN percents ELSE {NoPercent}) :
            tree = MkTree(n, p, fl, fp, hf, lf, lo, rc, pc)

\* every tree shape of at most MaxNodes nodes, a tall and a wide focused rect
Init ==
    /\ \E n \in 1..MaxNodes : \E p \in ParentVectors(n) :
            TreeOfShape(n, p, {"None", "Stacked", "Tabbed"},
                        {"SplitH", "SplitV"}, {Rect(100, 50), Rect(100, 30)},
                        {NoPercent, 150})
    /\ ratio = DefaultRatio
    /\ status = "running"
    /\ last = Idle
    /\ prior = NoPrior

Spec == Init /\ [][Next]_vars

\* root, one output, one workspace and k windows tiled in it
FlatWorkspace(k) == [i \in 2..(3 + k) |-> IF i <= 3 THEN i - 1 ELSE 3]

\* the thresholds --ratio is given in the geometry specification
RatioChoices == {<<4, 10>>, <<1, 1>>}

GeometryRects == {Rect(w, h) : w \in {0, 5, 100}, h \in {0, 2, 5, 39, 40, 41}}

\* a workspace of at most MaxWindows windows, the focused rect and the
\* threshold drawn from grids around the boundary height / width = ratio
InitGeometry ==
    /\ \E k \in 0..MaxWindows :
            TreeOfShape(3 + k, FlatWorkspace(k), {"None"},
                        {"SplitH", "SplitV", "Tabbed"}, GeometryRects,
                        {NoPercent})
    /\ \E rq \in RatioChoices : ratio = ParseRatio(rq)
    /\ status = "running"
    /\ last = Idle
    /\ prior = NoPrior

SpecGeometry == InitGeometry /\ [][Next]_vars

----------------------------------------------------------------------------
(* What the claims speak of, read off the snapshot of the last cycle *)

\* the last iteration was a decision cycle that obtained a snapshot
Fetched == last.fetch = "ok"

FocusedNodes(t) == {i \in DOMAIN t : t[i].focused}

TheFocused(t) == CHOOSE i \in FocusedNodes(t) : TRUE

\* the focus-path invariant of the data model: every ancestor of node i names,
\* first in its focus list, the child that leads to i
RECURSIVE FocusPathLeadsTo(_, _)
FocusPathLeadsTo(t, i) ==
    LET up == StructuralParent(t, i)
    IN \/ up = NoNode
       \/ /\ t[up].focus # <<>>
          /\ t[up].focus[1] = t[i].id
          /\ FocusPathLeadsTo(t, up)

\* the ignore policy as the design states it
IgnoredByPolicy(node) ==
    \/ node.layout \in {"Stacked", "Tabbed"}
    \/ node.node_type = "FloatingCon"
    \/ (node.percent # NoPercent /\ node.percent > 100)

\* height / width > num / den, exactly
ExactlyGreater(rect, rq) == rect.height * rq[2] > rq[1] * rect.width

\* the orientation the height/width ratio asks for under threshold rq
RatioRule(rect, rq) == IF ExactlyGreater(rect, rq) THEN "SplitV" ELSE "SplitH"

\* the direct-parent rule of the design
DirectParentRule(t, f, rq) ==
    LET up == StructuralParent(t, f)
    IN IF t[up].node_type = "Workspace" /\ Len(t[up].nodes) = 1
       THEN "SplitH" ELSE RatioRule(t[f].rect, rq)

\* the commands that bring the owner of f to `layout`
CommandsToward(t, f, layout) ==
    IF t[StructuralParent(t, f)].layout = layout THEN <<>>
    ELSE <<IF layout = "SplitV" THEN "splitv" ELSE "splith">>

\* from node i upward every ancestor has exactly one tiling child until a
\* Workspace with exactly one tiling child is met
RECURSIVE OnlyChildChainToWorkspace(_, _)
OnlyChildChainToWorkspace(t, i) ==
    /\ i # NoNode
    /\ Len(t[i].nodes) = 1
    /\ \/ t[i].node_type = "Workspace"
       \/ OnlyChildChainToWorkspace(t, StructuralParent(t, i))

CommandFor(layout) == IF layout = "SplitV" THEN "splitv" ELSE "splith"

----------------------------------------------------------------------------
(* Claims *)

\* C1: in every snapshot with exactly one focused node, the focus path leading
\* to it and a node that owns it as a child, resolution returns the focused node
\* and that owner; in every snapshot with no focused node the cycle ends in Err
\* with no command issued.
C1_ResolverFindsStructuralParent ==
    Fetched =>
        LET t == last.snapshot
        IN /\ (/\ Cardinality(FocusedNodes(t)) = 1
               /\ FocusPathLeadsTo(t, TheFocused(t))
               /\ StructuralParent(t, TheFocused(t)) # NoNode)
              => /\ last.cycle.focused = TheFocused(t)
                 /\ last.cycle.parent = StructuralParent(t, TheFocused(t))
           /\ FocusedNodes(t) = {}
              => /\ last.cycle.result = "Err"
                 /\ last.cycle.cmds = <<>>

\* C2: a decision cycle whose focused node is Stacked, Tabbed, a FloatingCon or
\* has a percent above 1.0 dispatches no command and leaves the tree as it was;
\* a focused node that is none of these and has no percent is not ignored.
C2_IgnoredFocusNeverDispatches ==
    Fetched =>
        LET t == last.snapshot
        IN \A f \in FocusedNodes(t) :
            /\ IgnoredByPolicy(t[f])
               => /\ last.cycle.cmds = <<>>
                  /\ last.outcome = "none"
                  /\ tree = t
            /\ (~IgnoredByPolicy(t[f]) /\ t[f].percent = NoPercent)
               => ~last.cycle.ignored

C2_Witness ==
    /\ Fetched
    /\ last.cycle.ignored
    /\ last.cycle.result = "Ok"
    /\ last.snapshot[last.cycle.focused].percent = 150
    /\ last.snapshot[last.cycle.focused].layout = "None"

\* C3: a decision cycle that directly follows a completed cycle on the same
\* tree, changed only by the compositor applying the earlier cycle's command,
\* issues no command, and the earlier cycle issued at most one.
C3_SecondCycleIsSilent ==
    prior # NoPrior => (prior[1] <= 1 /\ last.cycle.cmds = <<>>)

C3_Witness ==
    /\ prior = <<1>>
    /\ Fetched
    /\ last.cycle.chosen = "SplitV"
    /\ last.cycle.cmds = <<>>

\* C4: a cycle that reaches the dispatcher issues a command exactly when the
\* chosen orientation differs from the layout of the focused node's structural
\* parent in the snapshot, and then exactly one: splith for SplitH, splitv for
\* SplitV.
C4_CommandIffLayoutDiffers ==
    (Fetched /\ last.cycle.chosen # "none") =>
        LET t == last.snapshot
            up == StructuralParent(t, TheFocused(t))
        IN /\ last.cycle.chosen \in {"SplitH", "SplitV"}
           /\ last.cycle.chosen = t[up].layout => last.cycle.cmds = <<>>
           /\ last.cycle.chosen # t[up].layout
              => last.cycle.cmds = <<CommandFor(last.cycle.chosen)>>

C4_Witness ==
    /\ Fetched
    /\ last.cycle.chosen = "SplitV"
    /\ last.cycle.cmds = <<"splitv">>
    /\ last.snapshot[last.cycle.parent].layout = "Tabbed"

\* C5: a cycle in which get_tree fails, the focused node or its parent is not
\* found, or run_command is rejected or fails, ends in Err, prints the error
\* and leaves the process running.
C5_ErrorsAreCaughtAndReported ==
    (\/ last.fetch = "failed"
     \/ (Fetched /\ last.cycle.focused = NoNode)
     \/ (Fetched /\ last.cycle.focused # NoNode /\ last.cycle.parent = NoNode)
     \/ last.outcome \in {"rejected", "transport"})
    => /\ last.cycle.result = "Err"
       /\ last.printed # ""
       /\ status = "running"

\* C6: when the focused node is not ignored and its structural parent is a
\* Workspace with exactly one tiling child, the orientation is SplitH whatever
\* the rect and the threshold: splith is issued unless the parent is already
\* SplitH, and splitv never.
C6_SingleChildWorkspaceSplitsH ==
    Fetched =>
        LET t == last.snapshot
        IN \A f \in FocusedNodes(t) :
            LET up == StructuralParent(t, f)
            IN (/\ ~IgnoredByPolicy(t[f])
                /\ up # NoNode
                /\ t[up].node_type = "Workspace"
                /\ Len(t[up].nodes) = 1)
               => /\ last.cycle.chosen = "SplitH"
                  /\ last.cycle.cmds =
                        IF t[up].layout = "SplitH" THEN <<>> ELSE <<"splith">>

C6_Witness ==
    /\ Fetched
    /\ last.cycle.walk = "forced"
    /\ last.snapshot[last.cycle.parent].node_type = "Workspace"
    /\ last.snapshot[last.cycle.focused].rect = Rect(5, 41)
    /\ ratio = ParseRatio(<<1, 1>>)
    /\ last.cycle.cmds = <<"splith">>

\* C7: when the geometry decides, the orientation is SplitV exactly when
\* height / width is strictly greater than the threshold; with threshold 0.4,
\* 41/100 gives SplitV, 39/100 gives SplitH and 40/100 (and 2/5) gives SplitH.
C7_RatioBoundary ==
    (Fetched /\ last.cycle.walk = "geometry") =>
        LET rect == last.snapshot[last.cycle.focused].rect
        IN /\ \A rq \in RatioChoices :
                ratio = ParseRatio(rq) => last.cycle.chosen = RatioRule(rect, rq)
           /\ ratio = DefaultRatio =>
                /\ rect = Rect(100, 41) => last.cycle.chosen = "SplitV"
                /\ rect = Rect(100, 39) => last.cycle.chosen = "SplitH"
                /\ rect \in {Rect(100, 40), Rect(5, 2)} => last.cycle.chosen = "SplitH"

C7_Witness ==
    /\ Fetched
    /\ last.cycle.walk = "geometry"
    /\ ratio = DefaultRatio
    /\ last.snapshot[last.cycle.focused].rect = Rect(5, 2)
    /\ last.cycle.chosen = "SplitH"
    /\ last.cycle.cmds = <<"splith">>

C9_SameAsDirectParentRule ==
    (Fetched /\ last.cycle.result = "Ok" /\ last.cycle.chosen # "none") =>
        LET t == last.snapshot
            f == last.cycle.focused
        IN \A rq \in RatioChoices :
            ratio = ParseRatio(rq) =>
                last.cycle.cmds = CommandsToward(t, f, DirectParentRule(t, f, rq))

\* C9 as amended: a decision issues the commands of the direct-parent rule
\* whenever the structural parent is a Workspace or does not have exactly one
\* tiling child; under a parent that is not a Workspace and has exactly one
\* tiling child it issues those of SplitH when every ancestor from the parent
\* upward has exactly one tiling child until a Workspace is met, and those of
\* the ratio otherwise.
C9_WalkDecides ==
    (Fetched /\ last.cycle.chosen # "none") =>
        LET t == last.snapshot
            f == last.cycle.focused
            up == StructuralParent(t, f)
        IN \A rq \in RatioChoices :
            ratio = ParseRatio(rq) =>
                /\ (t[up].node_type = "Workspace" \/ Len(t[up].nodes) # 1)
                   => last.cycle.cmds =
                        CommandsToward(t, f, DirectParentRule(t, f, rq))
                /\ (t[up].node_type # "Workspace" /\ Len(t[up].nodes) = 1)
                   => last.cycle.cmds =
                        CommandsToward(t, f,
                            IF OnlyChildChainToWorkspace(t, up)
                            THEN "SplitH" ELSE RatioRule(t[f].rect, rq))

C9_Witness ==
    /\ Fetched
    /\ last.cycle.result = "Ok"
    /\ last.cycle.cmds = <<"splith">>
    /\ last.snapshot[last.cycle.parent].node_type = "Con"
    /\ Len(last.snapshot[last.cycle.parent].nodes) = 1
    /\ last.snapshot[last.cycle.focused].rect = Rect(100, 50)

\* C10: the walk through single-child ancestors never aborts the process: every
\* parent lookup it makes succeeds.
C10_WalkNeverAborts ==
    Fetched => last.cycle.walk # "panic"

=============================================================================
